---- MODULE Spec2Model ----
(***************************************************************************)
(* The mock device-streaming TCP server of BciPy                           *)
(* (bcipy/acquisition/datastream/server.py): the DataServer thread with    *)
(* its accept loop and single-client session handler, the per-session      *)
(* Producer thread feeding the hand-off queue, the caller that starts and  *)
(* stops the server, and the clients that connect and disconnect.          *)
(***************************************************************************)
EXTENDS Integers, Sequences, FiniteSets

VARIABLES
    sock,       \* listening socket: "bound", "listening", "closed"
    closes,     \* number of times the listening socket was closed
    started,    \* DataServer.started
    running,    \* StoppableThread.running(): the stop event is not set
    spc,        \* position of the server thread in run / _handle_client
    callerpc,   \* position of the caller of stop(): "idle", "joining", "returned"
    backlog,    \* connections queued by the OS on the listening socket
    conn,       \* per connection, the server side socket: "idle", "pending", "accepted", "closed"
    peer,       \* per connection, whether the client end is still there
    sess,       \* per connection, the session: "none", "handshaking", "streaming", "disconnected"
    how,        \* per connection, how its streaming loop was left: "none", "stall", "writefail", "stop"
    cur,        \* client_socket of _handle_client (0: none yet)
    hsi,        \* index of the next init message to write
    sent,       \* per connection, everything written to wfile, in order
    enq,        \* per connection, every frame its producer put on the queue, in order
    queue,      \* data_queue
    gen,        \* cursor of the generator instance the producer reads
    item,       \* the frame taken from the queue and not yet written
    ppc,        \* per connection, its producer thread: "none", "running", "dead"
    prun,       \* per connection, its producer's own running flag
    pend,       \* per connection, how its producer thread ended: "none", "exhausted", "encfail", "halted"
    stopmid,    \* whether stop was requested while a session was in its streaming loop
    late,       \* number of data frames written after the running flag was cleared
    aw,         \* the caller inside await_start: its position and accumulated wait
    ss,         \* start_socket_server: busy ports, current port, retries left, ports tried, outcome
    pace,       \* a producer thread and its clock: anchor, frames enqueued, their times
    dp,         \* a DispatchProcessor, the processors it may hold and the files they opened
    pd          \* a call of process_data_for_decision: its inputs, its queries, its outcome

vars == << sock, closes, started, running, spc, callerpc, backlog, conn, peer, sess,
           how, cur, hsi, sent, enq, queue, gen, item, ppc, prun, pend, stopmid, late,
           aw, ss, pace, dp, pd >>

----------------------------------------------------------------------------
(* Bounds *)

\* number of connections clients make over the server's life
MaxConns == 2
\* number of samples a generator instance yields before it is exhausted
GenLen == 2
\* number of handshake messages of the protocol
NumInit == 2

\* number of sleep intervals of await_start that add up to max_wait
MaxWaitTicks == 2
\* number of different ports start_socket_server may be asked for
NumFirstPorts == 2

\* longest frame period of a protocol, in clock ticks
MaxPeriod == 2
\* number of frames a timed producer enqueues
MaxFrames == 3

\* number of processors that may be handed to a DispatchProcessor
NumProcs == 2
\* number of different DeviceInfo objects
NumInfos == 2

\* largest number of stimuli of a sequence
MaxStim == 2
\* latest stimulus time, in seconds
MaxTime == 2

\* server_socket.listen(1)
ListenBacklog == 1

\* start_socket_server(protocol, host, port, retries=2)
DefaultRetries == 2

Conns == 1..MaxConns

----------------------------------------------------------------------------
(* Data *)

\* protocol.init_messages: the ordered handshake messages
init_messages == [i \in 1..NumInit |-> [kind |-> "init", val |-> i]]

\* the k-th sample (k = 0, 1, ...) of a deterministic generator
GenSample(k) == 10 + k

\* protocol.encoder: one sample to one wire frame
Encode(s) == [kind |-> "data", val |-> 2 * s + 1]

NoItem == [kind |-> "none", val |-> 0]

\* the data frames of a written stream, in order
Frames(s) == SelectSeq(s, LAMBDA m : m.kind = "data")

\* the handshake messages of a written stream, in order
Inits(s) == SelectSeq(s, LAMBDA m : m.kind = "init")

IsPrefix(s, t) == Len(s) <= Len(t) /\ SubSeq(t, 1, Len(s)) = s

\* the caller is not inside await_start
AwaitIdle == [pc |-> "none", wait |-> 0]

\* no producer is being timed
PaceIdle == [pc |-> "none"]

\* no DispatchProcessor has been constructed
DispatchIdle == [pc |-> "none"]

\* process_data_for_decision has not been called
DecisionIdle == [pc |-> "none"]

\* start_socket_server is not being run
StartIdle == [pc |-> "none", busy |-> {}, first |-> 0, budget |-> 0, port |-> 0,
              retries |-> 0, tried |-> << >>, raised |-> 0]

\* the state of the server and of its sessions, without await_start and
\* start_socket_server
mainvars == << sock, closes, started, running, spc, callerpc, backlog, conn, peer, sess,
               how, cur, hsi, sent, enq, queue, gen, item, ppc, prun, pend, stopmid, late >>

----------------------------------------------------------------------------
(* State after DataServer.__init__: socket bound, thread not started *)

Constructed ==
    /\ sock = "bound"
    /\ closes = 0
    /\ started = FALSE
    /\ running = TRUE
    /\ spc = "new"
    /\ callerpc = "idle"
    /\ backlog = << >>
    /\ conn = [c \in Conns |-> "idle"]
    /\ peer = [c \in Conns |-> TRUE]
    /\ sess = [c \in Conns |-> "none"]
    /\ how = [c \in Conns |-> "none"]
    /\ cur = 0
    /\ hsi = 1
    /\ sent = [c \in Conns |-> << >>]
    /\ enq = [c \in Conns |-> << >>]
    /\ queue = << >>
    /\ gen = 0
    /\ item = NoItem
    /\ ppc = [c \in Conns |-> "none"]
    /\ prun = [c \in Conns |-> FALSE]
    /\ pend = [c \in Conns |-> "none"]
    /\ stopmid = FALSE
    /\ late = 0
    /\ aw = AwaitIdle

Init ==
    /\ Constructed
    /\ ss = StartIdle
    /\ pace = PaceIdle
    /\ dp = DispatchIdle
    /\ pd = DecisionIdle

----------------------------------------------------------------------------
(* The caller: Thread.start and DataServer.stop *)

\* dataserver.start(): the server thread begins run()
Start ==
    /\ spc = "new"
    /\ aw.pc = "none"
    /\ spc' = "listen"
    /\ UNCHANGED << sock, closes, started, running, callerpc, backlog, conn, peer, sess,
                    how, cur, hsi, sent, enq, queue, gen, item, ppc, prun, pend, stopmid, late,
                    aw, ss, pace, dp, pd >>

\* the server thread has terminated: run returned, or an exception left it
ThreadTerminated == spc \in {"done", "crashed"}

\* StoppableThread.stop: clears the running flag ...
StopRequest ==
    /\ callerpc = "idle"
    /\ aw.pc \in {"none", "returned"}
    /\ running' = FALSE
    /\ callerpc' = "joining"
    /\ stopmid' = (spc \in {"sloop", "get", "write"})
    /\ UNCHANGED << sock, closes, started, spc, backlog, conn, peer, sess,
                    how, cur, hsi, sent, enq, queue, gen, item, ppc, prun, pend, late,
                    aw, ss, pace, dp, pd >>

\* ... and joins the server thread: it returns once that thread has terminated
StopReturn ==
    /\ callerpc = "joining"
    /\ ThreadTerminated
    /\ callerpc' = "returned"
    /\ UNCHANGED << sock, closes, started, running, spc, backlog, conn, peer, sess,
                    how, cur, hsi, sent, enq, queue, gen, item, ppc, prun, pend, stopmid, late,
                    aw, ss, pace, dp, pd >>

----------------------------------------------------------------------------
(* The clients *)

\* a client connects: the OS queues the connection on the listening socket
\* (connections are numbered in the order in which they are made)
Connect(c) ==
    /\ conn[c] = "idle"
    /\ \A d \in Conns : d < c => conn[d] # "idle"
    /\ sock = "listening"
    /\ Len(backlog) < ListenBacklog
    /\ conn' = [conn EXCEPT ![c] = "pending"]
    /\ backlog' = Append(backlog, c)
    /\ UNCHANGED << sock, closes, started, running, spc, callerpc, peer, sess,
                    how, cur, hsi, sent, enq, queue, gen, item, ppc, prun, pend, stopmid, late,
                    aw, ss, pace, dp, pd >>

\* a client goes away (closes or resets its end)
Disconnect(c) ==
    /\ conn[c] \in {"pending", "accepted"}
    /\ peer[c]
    /\ peer' = [peer EXCEPT ![c] = FALSE]
    /\ UNCHANGED << sock, closes, started, running, spc, callerpc, backlog, conn, sess,
                    how, cur, hsi, sent, enq, queue, gen, item, ppc, prun, pend, stopmid, late,
                    aw, ss, pace, dp, pd >>

----------------------------------------------------------------------------
(* The server thread: DataServer.run *)

\* server_socket.listen(1)
Listen ==
    /\ spc = "listen"
    /\ sock' = "listening"
    /\ spc' = "setstarted"
    /\ UNCHANGED << closes, started, running, callerpc, backlog, conn, peer, sess,
                    how, cur, hsi, sent, enq, queue, gen, item, ppc, prun, pend, stopmid, late,
                    aw, ss, pace, dp, pd >>

\* a variant of SetStarted that runs in place of listen(1): started is set on a
\* socket that is only bound
SetStartedEarly ==
    /\ spc = "listen"
    /\ started' = TRUE
    /\ spc' = "loop"
    /\ UNCHANGED << sock, closes, running, callerpc, backlog, conn, peer, sess,
                    how, cur, hsi, sent, enq, queue, gen, item, ppc, prun, pend, stopmid, late,
                    aw, ss, pace, dp, pd >>

\* self.started = True
SetStarted ==
    /\ spc = "setstarted"
    /\ started' = TRUE
    /\ spc' = "loop"
    /\ UNCHANGED << sock, closes, running, callerpc, backlog, conn, peer, sess,
                    how, cur, hsi, sent, enq, queue, gen, item, ppc, prun, pend, stopmid, late,
                    aw, ss, pace, dp, pd >>

\* a variant of LoopCheck that does not read the running flag (while True)
LoopCheckAlways ==
    /\ spc = "loop"
    /\ spc' = "select"
    /\ UNCHANGED << sock, closes, started, running, callerpc, backlog, conn, peer, sess,
                    how, cur, hsi, sent, enq, queue, gen, item, ppc, prun, pend, stopmid, late,
                    aw, ss, pace, dp, pd >>

\* while self.running(): one evaluation of the accept loop's condition
LoopCheck ==
    /\ spc = "loop"
    /\ spc' = IF running THEN "select" ELSE "shutdown"
    /\ UNCHANGED << sock, closes, started, running, callerpc, backlog, conn, peer, sess,
                    how, cur, hsi, sent, enq, queue, gen, item, ppc, prun, pend, stopmid, late,
                    aw, ss, pace, dp, pd >>

\* select.select(inputs, outputs, errors, 0.05): a connection is queued
SelectReadable ==
    /\ spc = "select"
    /\ backlog # << >>
    /\ spc' = "accept"
    /\ UNCHANGED << sock, closes, started, running, callerpc, backlog, conn, peer, sess,
                    how, cur, hsi, sent, enq, queue, gen, item, ppc, prun, pend, stopmid, late,
                    aw, ss, pace, dp, pd >>

\* select.select(...) times out with nothing readable
SelectTimeout ==
    /\ spc = "select"
    /\ backlog = << >>
    /\ spc' = "loop"
    /\ UNCHANGED << sock, closes, started, running, callerpc, backlog, conn, peer, sess,
                    how, cur, hsi, sent, enq, queue, gen, item, ppc, prun, pend, stopmid, late,
                    aw, ss, pace, dp, pd >>

\* a variant of Accept that also takes a connection while a session is streaming
AcceptDuringSession ==
    /\ spc \in {"accept", "get"}
    /\ backlog # << >>
    /\ cur' = Head(backlog)
    /\ backlog' = Tail(backlog)
    /\ conn' = [conn EXCEPT ![Head(backlog)] = "accepted"]
    /\ sess' = [sess EXCEPT ![Head(backlog)] = "handshaking"]
    /\ hsi' = 1
    /\ spc' = "hs"
    /\ UNCHANGED << sock, closes, started, running, callerpc, peer,
                    how, sent, enq, queue, gen, item, ppc, prun, pend, stopmid, late,
                    aw, ss, pace, dp, pd >>

\* client, addr = self.server_socket.accept(); self._handle_client(client) is entered
Accept ==
    /\ spc = "accept"
    /\ backlog # << >>
    /\ cur' = Head(backlog)
    /\ backlog' = Tail(backlog)
    /\ conn' = [conn EXCEPT ![Head(backlog)] = "accepted"]
    /\ sess' = [sess EXCEPT ![Head(backlog)] = "handshaking"]
    /\ hsi' = 1
    /\ spc' = "hs"
    /\ UNCHANGED << sock, closes, started, running, callerpc, peer,
                    how, sent, enq, queue, gen, item, ppc, prun, pend, stopmid, late,
                    aw, ss, pace, dp, pd >>

\* server_socket.shutdown(2); server_socket.close()
Shutdown ==
    /\ spc = "shutdown"
    /\ sock' = "closed"
    /\ closes' = closes + 1
    /\ spc' = "release"
    /\ UNCHANGED << started, running, callerpc, backlog, conn, peer, sess,
                    how, cur, hsi, sent, enq, queue, gen, item, ppc, prun, pend, stopmid, late,
                    aw, ss, pace, dp, pd >>

\* server_socket.shutdown(2) raises: except Exception: pass -- the close() that
\* follows it in the same try block is skipped
ShutdownRaise ==
    /\ spc = "shutdown"
    /\ spc' = "release"
    /\ UNCHANGED << sock, closes, started, running, callerpc, backlog, conn, peer, sess,
                    how, cur, hsi, sent, enq, queue, gen, item, ppc, prun, pend, stopmid, late,
                    aw, ss, pace, dp, pd >>

\* server_socket.close() raises after it released the descriptor:
\* except Exception: pass
CloseRaise ==
    /\ spc = "shutdown"
    /\ sock' = "closed"
    /\ closes' = closes + 1
    /\ spc' = "release"
    /\ UNCHANGED << started, running, callerpc, backlog, conn, peer, sess,
                    how, cur, hsi, sent, enq, queue, gen, item, ppc, prun, pend, stopmid, late,
                    aw, ss, pace, dp, pd >>

\* self.server_socket = None on a socket that close() was never called on, in a
\* build that finalizes the unreferenced socket object at once: the
\* finalizer releases the descriptor; run returns and the thread terminates
ReleaseFinalized ==
    /\ spc = "release"
    /\ sock # "closed"
    /\ sock' = "closed"
    /\ closes' = closes + 1
    /\ spc' = "done"
    /\ UNCHANGED << started, running, callerpc, backlog, conn, peer, sess,
                    how, cur, hsi, sent, enq, queue, gen, item, ppc, prun, pend, stopmid, late,
                    aw, ss, pace, dp, pd >>

\* self.server_socket = None; run returns and the thread terminates (a socket
\* that close() was never called on stays open until some finalizer runs)
Release ==
    /\ spc = "release"
    /\ spc' = "done"
    /\ UNCHANGED << sock, closes, started, running, callerpc, backlog, conn, peer, sess,
                    how, cur, hsi, sent, enq, queue, gen, item, ppc, prun, pend, stopmid, late,
                    aw, ss, pace, dp, pd >>

----------------------------------------------------------------------------
(* The server thread: DataServer._handle_client *)

\* a variant of HandshakeWrite that leaves the loop one message early
HandshakeWriteShort ==
    /\ spc = "hs"
    /\ sent' = [sent EXCEPT ![cur] = Append(@, init_messages[hsi])]
    /\ hsi' = hsi + 1
    /\ spc' = IF hsi + 1 >= NumInit THEN "mkgen" ELSE "hs"
    /\ UNCHANGED << sock, closes, started, running, callerpc, backlog, conn, peer, sess,
                    how, cur, enq, queue, gen, item, ppc, prun, pend, stopmid, late,
                    aw, ss, pace, dp, pd >>

\* for msg in self.protocol.init_messages: wfile.write(msg)
HandshakeWrite ==
    /\ spc = "hs"
    /\ sent' = [sent EXCEPT ![cur] = Append(@, init_messages[hsi])]
    /\ hsi' = hsi + 1
    /\ spc' = IF hsi = NumInit THEN "mkgen" ELSE "hs"
    /\ UNCHANGED << sock, closes, started, running, callerpc, backlog, conn, peer, sess,
                    how, cur, enq, queue, gen, item, ppc, prun, pend, stopmid, late,
                    aw, ss, pace, dp, pd >>

\* wfile.write(msg) raises because the client is gone: nothing catches it,
\* it leaves _handle_client and run, and the server thread dies
HandshakeRaise ==
    /\ spc = "hs"
    /\ ~peer[cur]
    /\ spc' = "crashed"
    /\ UNCHANGED << sock, closes, started, running, callerpc, backlog, conn, peer, sess,
                    how, cur, hsi, sent, enq, queue, gen, item, ppc, prun, pend, stopmid, late,
                    aw, ss, pace, dp, pd >>

\* a variant of NewQueue that keeps the queue of the session before
SameQueue(q) == q

\* data_queue = Queue()
NewQueue(q) == << >>

\* a variant of NewGenerator that keeps reading the generator of the session before
SameGenerator(g) == g

\* generator = self.generator(**self.gen_params): a new instance at its initial state
NewGenerator(g) == 0

\* data_queue = Queue(); generator = self.generator(**self.gen_params)
MakeGenerator ==
    /\ spc = "mkgen"
    /\ queue' = NewQueue(queue)
    /\ gen' = NewGenerator(gen)
    /\ spc' = "enter"
    /\ UNCHANGED << sock, closes, started, running, callerpc, backlog, conn, peer, sess,
                    how, cur, hsi, sent, enq, item, ppc, prun, pend, stopmid, late,
                    aw, ss, pace, dp, pd >>

\* self.generator(**self.gen_params) raises: nothing catches it, the server thread dies
GeneratorRaise ==
    /\ spc = "mkgen"
    /\ spc' = "crashed"
    /\ UNCHANGED << sock, closes, started, running, callerpc, backlog, conn, peer, sess,
                    how, cur, hsi, sent, enq, queue, gen, item, ppc, prun, pend, stopmid, late,
                    aw, ss, pace, dp, pd >>

\* with Producer(data_queue, generator=generator, freq=...): __enter__ starts the
\* producer's background thread
ProducerEnter ==
    /\ spc = "enter"
    /\ ppc' = [ppc EXCEPT ![cur] = "running"]
    /\ prun' = [prun EXCEPT ![cur] = TRUE]
    /\ sess' = [sess EXCEPT ![cur] = "streaming"]
    /\ spc' = "sloop"
    /\ UNCHANGED << sock, closes, started, running, callerpc, backlog, conn, peer,
                    how, cur, hsi, sent, enq, queue, gen, item, pend, stopmid, late,
                    aw, ss, pace, dp, pd >>

\* leaving the block without the with statement's __exit__
LeaveUnscoped == "close_client"

\* where control goes when the with block is left: the with statement runs
\* Producer.__exit__ before the statement after the block
LeaveWith == "pexit"

\* a variant of StreamCheck that drains the queue before it honours the stop
StreamCheckDrain ==
    /\ spc = "sloop"
    /\ spc' = IF running \/ queue # << >> THEN "get" ELSE LeaveWith
    /\ how' = IF running \/ queue # << >> THEN how ELSE [how EXCEPT ![cur] = "stop"]
    /\ UNCHANGED << sock, closes, started, running, callerpc, backlog, conn, peer, sess,
                    cur, hsi, sent, enq, queue, gen, item, ppc, prun, pend, stopmid, late,
                    aw, ss, pace, dp, pd >>

\* while self.running(): one evaluation of the streaming loop's condition
StreamCheck ==
    /\ spc = "sloop"
    /\ spc' = IF running THEN "get" ELSE LeaveWith
    /\ how' = IF running THEN how ELSE [how EXCEPT ![cur] = "stop"]
    /\ UNCHANGED << sock, closes, started, running, callerpc, backlog, conn, peer, sess,
                    cur, hsi, sent, enq, queue, gen, item, ppc, prun, pend, stopmid, late,
                    aw, ss, pace, dp, pd >>

\* a variant of QueueRest that leaves the taken frame on the queue
QueueKeep(q) == q

\* Queue.get: the frame taken is the oldest one ...
QueueFirst(q) == Head(q)

\* ... and it is removed from the queue
QueueRest(q) == Tail(q)

\* item = data_queue.get(True, 5): a frame is available within the wait
QueueGet ==
    /\ spc = "get"
    /\ queue # << >>
    /\ item' = QueueFirst(queue)
    /\ queue' = QueueRest(queue)
    /\ spc' = "write"
    /\ UNCHANGED << sock, closes, started, running, callerpc, backlog, conn, peer, sess,
                    how, cur, hsi, sent, enq, gen, ppc, prun, pend, stopmid, late,
                    aw, ss, pace, dp, pd >>

\* a variant of Stall without the except Empty clause: the exception leaves run
StallUncaught ==
    /\ spc = "get"
    /\ queue = << >>
    /\ how' = [how EXCEPT ![cur] = "stall"]
    /\ spc' = "crashed"
    /\ UNCHANGED << sock, closes, started, running, callerpc, backlog, conn, peer, sess,
                    cur, hsi, sent, enq, queue, gen, item, ppc, prun, pend, stopmid, late,
                    aw, ss, pace, dp, pd >>

\* except Empty: client_socket.close(); break -- no frame within the bounded wait
Stall ==
    /\ spc = "get"
    /\ queue = << >>
    /\ conn' = [conn EXCEPT ![cur] = "closed"]
    /\ how' = [how EXCEPT ![cur] = "stall"]
    /\ spc' = LeaveWith
    /\ UNCHANGED << sock, closes, started, running, callerpc, backlog, peer, sess,
                    cur, hsi, sent, enq, queue, gen, item, ppc, prun, pend, stopmid, late,
                    aw, ss, pace, dp, pd >>

\* a variant of WriteFrame that drops the frame it took from the queue
WriteFrameLost ==
    /\ spc = "write"
    /\ item' = NoItem
    /\ spc' = "sloop"
    /\ UNCHANGED << sock, closes, started, running, callerpc, backlog, conn, peer, sess,
                    how, cur, hsi, sent, enq, queue, gen, ppc, prun, pend, stopmid, late,
                    aw, ss, pace, dp, pd >>

\* wfile.write(item) succeeds
WriteFrame ==
    /\ spc = "write"
    /\ sent' = [sent EXCEPT ![cur] = Append(@, item)]
    /\ late' = IF running THEN late ELSE late + 1
    /\ item' = NoItem
    /\ spc' = "sloop"
    /\ UNCHANGED << sock, closes, started, running, callerpc, backlog, conn, peer, sess,
                    how, cur, hsi, enq, queue, gen, ppc, prun, pend, stopmid,
                    aw, ss, pace, dp, pd >>

\* a variant of WriteFail without the except IOError clause: the exception leaves run
WriteFailUncaught ==
    /\ spc = "write"
    /\ ~peer[cur]
    /\ item' = NoItem
    /\ how' = [how EXCEPT ![cur] = "writefail"]
    /\ spc' = "crashed"
    /\ UNCHANGED << sock, closes, started, running, callerpc, backlog, conn, peer, sess,
                    cur, hsi, sent, enq, queue, gen, ppc, prun, pend, stopmid, late,
                    aw, ss, pace, dp, pd >>

\* wfile.write(item) raises IOError because the client is gone; except IOError: break
WriteFail ==
    /\ spc = "write"
    /\ ~peer[cur]
    /\ item' = NoItem
    /\ how' = [how EXCEPT ![cur] = "writefail"]
    /\ spc' = LeaveWith
    /\ UNCHANGED << sock, closes, started, running, callerpc, backlog, conn, peer, sess,
                    cur, hsi, sent, enq, queue, gen, ppc, prun, pend, stopmid, late,
                    aw, ss, pace, dp, pd >>

\* Producer.__exit__, first half: signal the background thread to halt
ProducerExit ==
    /\ spc = "pexit"
    /\ prun' = [prun EXCEPT ![cur] = FALSE]
    /\ spc' = "join"
    /\ UNCHANGED << sock, closes, started, running, callerpc, backlog, conn, peer, sess,
                    how, cur, hsi, sent, enq, queue, gen, item, ppc, pend, stopmid, late,
                    aw, ss, pace, dp, pd >>

\* Producer.__exit__, second half: block until the background thread has terminated
ProducerJoin ==
    /\ spc = "join"
    /\ ppc[cur] = "dead"
    /\ spc' = "close_client"
    /\ UNCHANGED << sock, closes, started, running, callerpc, backlog, conn, peer, sess,
                    how, cur, hsi, sent, enq, queue, gen, item, ppc, prun, pend, stopmid, late,
                    aw, ss, pace, dp, pd >>

\* client_socket.close(); _handle_client returns to the accept loop
\* (with the connection closed its client end is over as well)
CloseClient ==
    /\ spc = "close_client"
    /\ conn' = [conn EXCEPT ![cur] = "closed"]
    /\ peer' = [peer EXCEPT ![cur] = FALSE]
    /\ sess' = [sess EXCEPT ![cur] = "disconnected"]
    /\ spc' = "loop"
    /\ UNCHANGED << sock, closes, started, running, callerpc, backlog,
                    how, cur, hsi, sent, enq, queue, gen, item, ppc, prun, pend, stopmid, late,
                    aw, ss, pace, dp, pd >>

----------------------------------------------------------------------------
(* The producer thread of a session *)

\* data_queue = Queue(): maxsize 0, a queue without a capacity
QueueMaxSize == 0

\* Queue.put would block only on a queue that has a capacity and is full
QueueHasRoom(q) == QueueMaxSize = 0 \/ Len(q) < QueueMaxSize

\* one iteration of the producer loop: next sample, encode, enqueue
ProducerPut(c) ==
    /\ ppc[c] = "running"
    /\ prun[c]
    /\ gen < GenLen
    /\ QueueHasRoom(queue)
    /\ queue' = Append(queue, Encode(GenSample(gen)))
    /\ enq' = [enq EXCEPT ![c] = Append(@, Encode(GenSample(gen)))]
    /\ gen' = gen + 1
    /\ UNCHANGED << sock, closes, started, running, spc, callerpc, backlog, conn, peer, sess,
                    how, cur, hsi, sent, item, ppc, prun, pend, stopmid, late,
                    aw, ss, pace, dp, pd >>

\* the generator is exhausted: the producer thread ends without an error
ProducerExhausted(c) ==
    /\ ppc[c] = "running"
    /\ prun[c]
    /\ gen >= GenLen
    /\ ppc' = [ppc EXCEPT ![c] = "dead"]
    /\ pend' = [pend EXCEPT ![c] = "exhausted"]
    /\ UNCHANGED << sock, closes, started, running, spc, callerpc, backlog, conn, peer, sess,
                    how, cur, hsi, sent, enq, queue, gen, item, prun, stopmid, late,
                    aw, ss, pace, dp, pd >>

\* encoding the next sample raises: the exception ends the producer thread
ProducerEncodeFail(c) ==
    /\ ppc[c] = "running"
    /\ prun[c]
    /\ gen < GenLen
    /\ ppc' = [ppc EXCEPT ![c] = "dead"]
    /\ pend' = [pend EXCEPT ![c] = "encfail"]
    /\ UNCHANGED << sock, closes, started, running, spc, callerpc, backlog, conn, peer, sess,
                    how, cur, hsi, sent, enq, queue, gen, item, prun, stopmid, late,
                    aw, ss, pace, dp, pd >>

\* the producer loop sees its running flag cleared and the thread ends
ProducerHalt(c) ==
    /\ ppc[c] = "running"
    /\ ~prun[c]
    /\ ppc' = [ppc EXCEPT ![c] = "dead"]
    /\ pend' = [pend EXCEPT ![c] = "halted"]
    /\ UNCHANGED << sock, closes, started, running, spc, callerpc, backlog, conn, peer, sess,
                    how, cur, hsi, sent, enq, queue, gen, item, prun, stopmid, late,
                    aw, ss, pace, dp, pd >>

----------------------------------------------------------------------------
(* The caller inside await_start *)

\* dataserver.start(); wait = 0
AwaitStart ==
    /\ aw.pc = "none"
    /\ spc = "new"
    /\ callerpc = "idle"
    /\ spc' = "listen"
    /\ aw' = [pc |-> "check", wait |-> 0]
    /\ UNCHANGED << sock, closes, started, running, callerpc, backlog, conn, peer, sess,
                    how, cur, hsi, sent, enq, queue, gen, item, ppc, prun, pend, stopmid, late,
                    ss, pace, dp, pd >>

\* while not dataserver.started: one evaluation; await_start returns when started
AwaitCheck ==
    /\ aw.pc = "check"
    /\ aw' = [aw EXCEPT !.pc = IF started THEN "returned" ELSE "sleep"]
    /\ UNCHANGED << mainvars, ss, pace, dp, pd >>

\* time.sleep(wait_interval); wait += wait_interval; if wait >= max_wait
AwaitSleep ==
    /\ aw.pc = "sleep"
    /\ aw' = [pc |-> IF aw.wait + 1 >= MaxWaitTicks THEN "stop" ELSE "check",
              wait |-> aw.wait + 1]
    /\ UNCHANGED << mainvars, ss, pace, dp, pd >>

\* a variant of AwaitStop that raises without stopping the server
AwaitStopSkipped ==
    /\ aw.pc = "stop"
    /\ aw' = [aw EXCEPT !.pc = "failed"]
    /\ UNCHANGED << mainvars, ss, pace, dp, pd >>

\* dataserver.stop() is called ...
AwaitStop ==
    /\ aw.pc = "stop"
    /\ callerpc = "idle"
    /\ running' = FALSE
    /\ callerpc' = "joining"
    /\ stopmid' = (spc \in {"sloop", "get", "write"})
    /\ aw' = [aw EXCEPT !.pc = "stopping"]
    /\ UNCHANGED << sock, closes, started, spc, backlog, conn, peer, sess,
                    how, cur, hsi, sent, enq, queue, gen, item, ppc, prun, pend, late,
                    ss, pace, dp, pd >>

\* ... and once it has returned: raise Exception("Server couldn't start up in time.")
AwaitRaise ==
    /\ aw.pc = "stopping"
    /\ callerpc = "returned"
    /\ aw' = [aw EXCEPT !.pc = "failed"]
    /\ UNCHANGED << mainvars, ss, pace, dp, pd >>

----------------------------------------------------------------------------
(* The pacing of a Producer thread.  Time is counted in clock ticks; a rate  *)
(* is a fraction num/den of frames per tick.                                 *)

\* a variant of Freq that hands the sample rate itself to the Producer
FreqIsRate(fs) == fs

\* freq = 1 / self.protocol.fs: the period handed to the Producer
Freq(fs) == [num |-> fs.den, den |-> fs.num]

\* a period as a whole number of ticks
Ticks(q) == q.num \div q.den

\* a variant of TargetTime that sleeps one period after the previous frame
TargetAfterPrevious(k) ==
    IF k = 0 THEN pace.t0 ELSE pace.times[k] + pace.period

\* the expected wall-clock time of frame k (k = 0, 1, ...), relative to the
\* pacing anchor set at start
TargetTime(k) == pace.t0 + k * pace.period

Later(a, b) == IF a >= b THEN a ELSE b

\* the sample rates considered: one frame every 1..MaxPeriod ticks
Rates == {[num |-> 1, den |-> d] : d \in 1..MaxPeriod}

\* with Producer(data_queue, generator, freq): the thread starts and sets its anchor
InitPace ==
    /\ Constructed
    /\ ss = StartIdle
    /\ dp = DispatchIdle
    /\ pd = DecisionIdle
    /\ \E fs \in Rates, t \in 0..MaxPeriod :
          pace = [pc |-> "sleep", fs |-> fs, period |-> Ticks(Freq(fs)), t0 |-> t,
                  now |-> t, times |-> << >>]

\* the thread sleeps the time remaining until the target time of its next
\* frame, if that is positive
PaceSleep ==
    /\ pace.pc = "sleep"
    /\ Len(pace.times) < MaxFrames
    /\ pace' = [pace EXCEPT !.pc = "work",
                            !.now = Later(pace.now, TargetTime(Len(pace.times)))]
    /\ UNCHANGED << mainvars, aw, ss, dp, pd >>

\* the thread takes the next sample, encodes it and enqueues it; waking up and
\* doing so takes d ticks, at most one period
PaceEnqueue ==
    /\ pace.pc = "work"
    /\ \E d \in 0..pace.period :
          pace' = [pace EXCEPT !.pc = "sleep", !.now = pace.now + d,
                               !.times = Append(@, pace.now + d)]
    /\ UNCHANGED << mainvars, aw, ss, dp, pd >>

\* the with block is left: the thread is stopped
PaceStop ==
    /\ pace.pc = "sleep"
    /\ pace' = [pace EXCEPT !.pc = "stopped"]
    /\ UNCHANGED << mainvars, aw, ss, dp, pd >>

NextPace ==
    \/ PaceSleep
    \/ PaceEnqueue
    \/ PaceStop

SpecPace == InitPace /\ [][NextPace]_vars

----------------------------------------------------------------------------
(* Processors (bcipy/acquisition/processor.py): one DispatchProcessor and   *)
(* the processors that may be added to it.  A DeviceInfo is a number        *)
(* 1..NumInfos, 0 stands for None; direct is the processor entered on its  *)
(* own (0: none).  A processor is "new", "entered" (a FileWriter: its file  *)
(* is open) or "exited" (a FileWriter: its file is closed).  A run          *)
(* configures the dispatcher, then uses one with block, of the dispatcher   *)
(* or of one processor; process is called at any time.                      *)

Procs == 1..NumProcs

\* longest list of processors the dispatcher is given
MaxList == NumProcs

\* the classes of the processors handed to the dispatcher
Kinds == {"Processor", "NullProcessor", "FileWriter"}

\* the (record, timestamp) pairs handed to process; timestamp 0 stands for None
Samples == {<< r, r - 1 >> : r \in 1..NumInfos}

\* the list l without its element at index i
DropAt(l, i) == SubSeq(l, 1, i - 1) \o SubSeq(l, i + 1, Len(l))

\* index of the first occurrence of q in l (0: none)
FirstIndex(l, q) ==
    IF \E i \in 1..Len(l) : l[i] = q
    THEN CHOOSE i \in 1..Len(l) : l[i] = q /\ \A j \in 1..(i - 1) : l[j] # q
    ELSE 0

\* DispatchProcessor() and fresh processors: Processor.__init__ sets
\* _device_info = None, FileWriter.__init__ sets _file = None; processors
\* given to the constructor are added by add, as below
InitDispatch ==
    /\ Constructed
    /\ ss = StartIdle
    /\ pace = PaceIdle
    /\ pd = DecisionIdle
    /\ \E k \in [Procs -> Kinds] :
          dp = [pc |-> "ready", kind |-> k,
                info |-> [q \in Procs |-> 0], dinfo |-> 0, procs |-> << >>,
                cstate |-> [q \in Procs |-> "new"],
                ctx |-> "out", direct |-> 0, calls |-> << >>,
                last |-> [op |-> "init", res |-> "ok", arg |-> << >>]]

\* a variant of PushInfo that leaves an added processor as it is
PushNothing(info, q, i) == info

\* proc.set_device_info(device_info) of a processor in the list
PushInfo(info, q, i) == [info EXCEPT ![q] = i]

\* add: self.processors.append(proc); if self._device_info:
\* proc.set_device_info(self._device_info)
DispatchAdd(q) ==
    /\ dp.pc = "ready"
    /\ dp.ctx = "out"
    /\ Len(dp.procs) < MaxList
    /\ dp' = [dp EXCEPT !.procs = Append(@, q),
                        !.info = IF dp.dinfo # 0 THEN PushInfo(@, q, dp.dinfo) ELSE @,
                        !.calls = << >>,
                        !.last = [op |-> "configure", res |-> "ok", arg |-> << >>]]
    /\ UNCHANGED << mainvars, aw, ss, pace, pd >>

\* remove: self.processors.remove(proc) takes out the first occurrence, and
\* raises ValueError when there is none
DispatchRemove(q) ==
    /\ dp.pc = "ready"
    /\ dp.ctx = "out"
    /\ dp' = IF FirstIndex(dp.procs, q) # 0
             THEN [dp EXCEPT !.procs = DropAt(@, FirstIndex(dp.procs, q)),
                             !.calls = << >>,
                             !.last = [op |-> "configure", res |-> "ok", arg |-> << >>]]
             ELSE [dp EXCEPT !.calls = << >>,
                             !.last = [op |-> "configure", res |-> "ValueError", arg |-> << >>]]
    /\ UNCHANGED << mainvars, aw, ss, pace, pd >>

\* set_device_info: the dispatcher's own, then that of every processor in the list
DispatchSetDeviceInfo(i) ==
    /\ dp.pc = "ready"
    /\ dp.ctx = "out"
    /\ dp' = [dp EXCEPT !.dinfo = i,
                        !.info = [q \in Procs |->
                                     IF FirstIndex(dp.procs, q) # 0 THEN i ELSE @[q]],
                        !.calls = << >>,
                        !.last = [op |-> "configure", res |-> "ok", arg |-> << >>]]
    /\ UNCHANGED << mainvars, aw, ss, pace, pd >>

\* the outcome of proc.process(record, timestamp) for one processor:
\* Processor.process raises NotImplementedError, NullProcessor.process passes,
\* FileWriter.process writes a row if it has a writer, which raises ValueError
\* on a file already closed
ChildProcess(q) ==
    IF dp.kind[q] = "Processor" THEN "NotImplementedError"
    ELSE IF dp.kind[q] = "FileWriter" /\ dp.cstate[q] = "exited" THEN "ValueError"
    ELSE "ok"

\* a variant of ForwardFrom that skips a processor it has already called
RECURSIVE ForwardOnceFrom(_, _, _)
ForwardOnceFrom(i, st, sample) ==
    IF i > Len(dp.procs) \/ st.res # "ok" THEN st
    ELSE IF \E j \in 1..(i - 1) : dp.procs[j] = dp.procs[i]
         THEN ForwardOnceFrom(i + 1, st, sample)
         ELSE ForwardOnceFrom(i + 1,
                  [calls |-> Append(st.calls, << dp.procs[i], sample[1], sample[2] >>),
                   res |-> ChildProcess(dp.procs[i])], sample)

\* for proc in self.processors: proc.process(record, timestamp), from index i
\* on; an exception of a processor ends the loop
RECURSIVE ForwardFrom(_, _, _)
ForwardFrom(i, st, sample) ==
    IF i > Len(dp.procs) \/ st.res # "ok" THEN st
    ELSE ForwardFrom(i + 1,
             [calls |-> Append(st.calls, << dp.procs[i], sample[1], sample[2] >>),
              res |-> ChildProcess(dp.procs[i])], sample)

\* DispatchProcessor.process(record, timestamp)
DispatchProcess(sample) ==
    /\ dp.pc = "ready"
    /\ LET out == ForwardFrom(1, [calls |-> << >>, res |-> "ok"], sample)
       IN  dp' = [dp EXCEPT !.calls = out.calls,
                            !.last = [op |-> "process", res |-> out.res, arg |-> sample]]
    /\ UNCHANGED << mainvars, aw, ss, pace, pd >>

\* __enter__ of one processor: _check_device_info asserts that the device
\* info is set; a FileWriter then opens its file, which raises for the
\* FileWriters in unwritable
ChildEnter(q, st, unwritable) ==
    IF dp.info[q] = 0 THEN [st EXCEPT !.res = "AssertionError"]
    ELSE IF dp.kind[q] = "FileWriter" /\ q \in unwritable
         THEN [st EXCEPT !.res = "IOError"]
         ELSE [st EXCEPT !.cstate[q] = "entered"]

\* for proc in self.processors: proc.__enter__(), from index i on
RECURSIVE EnterFrom(_, _, _)
EnterFrom(i, st, unwritable) ==
    IF i > Len(dp.procs) \/ st.res # "ok" THEN st
    ELSE EnterFrom(i + 1, ChildEnter(dp.procs[i], st, unwritable), unwritable)

\* the FileWriters among the processors
FileWriters == {q \in Procs : dp.kind[q] = "FileWriter"}

\* with dispatcher: DispatchProcessor.__enter__, which does not call
\* _check_device_info for the dispatcher itself
DispatchEnter ==
    /\ dp.pc = "ready"
    /\ dp.ctx = "out"
    /\ dp.direct = 0
    /\ \E unwritable \in SUBSET FileWriters :
         LET out == EnterFrom(1, [cstate |-> dp.cstate, res |-> "ok"], unwritable)
         IN  dp' = [dp EXCEPT !.cstate = out.cstate,
                              !.ctx = IF out.res = "ok" THEN "in" ELSE "failed",
                              !.calls = << >>,
                              !.last = [op |-> "enter", res |-> out.res, arg |-> << >>]]
    /\ UNCHANGED << mainvars, aw, ss, pace, pd >>

\* __exit__ of one processor: Processor.__exit__ passes, FileWriter.__exit__
\* closes self._file
ChildExit(q, st) == [st EXCEPT !.cstate[q] = "exited"]

\* for proc in self.processors: proc.__exit__(...), from index i on
RECURSIVE ExitFrom(_, _)
ExitFrom(i, st) ==
    IF i > Len(dp.procs) \/ st.res # "ok" THEN st
    ELSE ExitFrom(i + 1, ChildExit(dp.procs[i], st))

\* the with block of the dispatcher is left: DispatchProcessor.__exit__
DispatchExit ==
    /\ dp.pc = "ready"
    /\ dp.ctx = "in"
    /\ dp.direct = 0
    /\ LET out == ExitFrom(1, [cstate |-> dp.cstate, res |-> "ok"])
       IN  dp' = [dp EXCEPT !.cstate = out.cstate,
                            !.ctx = "left",
                            !.calls = << >>,
                            !.last = [op |-> "exit", res |-> out.res, arg |-> << >>]]
    /\ UNCHANGED << mainvars, aw, ss, pace, pd >>

\* with proc: a processor is entered on its own
ProcessorEnter(q) ==
    /\ dp.pc = "ready"
    /\ dp.ctx = "out"
    /\ dp.direct = 0
    /\ \E unwritable \in SUBSET FileWriters :
         LET out == ChildEnter(q, [cstate |-> dp.cstate, res |-> "ok"], unwritable)
         IN  dp' = [dp EXCEPT !.cstate = out.cstate,
                              !.direct = q,
                              !.ctx = IF out.res = "ok" THEN "in" ELSE "failed",
                              !.calls = << >>,
                              !.last = [op |-> "enter_processor", res |-> out.res, arg |-> << >>]]
    /\ UNCHANGED << mainvars, aw, ss, pace, pd >>

\* the with block of that processor is left
ProcessorExit ==
    /\ dp.pc = "ready"
    /\ dp.direct # 0
    /\ dp.ctx = "in"
    /\ LET out == ChildExit(dp.direct, [cstate |-> dp.cstate, res |-> "ok"])
       IN  dp' = [dp EXCEPT !.cstate = out.cstate,
                            !.ctx = "left",
                            !.calls = << >>,
                            !.last = [op |-> "exit_processor", res |-> out.res, arg |-> << >>]]
    /\ UNCHANGED << mainvars, aw, ss, pace, pd >>

NextDispatch ==
    \/ \E q \in Procs : DispatchAdd(q)
    \/ \E q \in Procs : DispatchRemove(q)
    \/ \E i \in 1..NumInfos : DispatchSetDeviceInfo(i)
    \/ \E sample \in Samples : DispatchProcess(sample)
    \/ DispatchEnter
    \/ DispatchExit
    \/ \E q \in Procs : ProcessorEnter(q)
    \/ ProcessorExit

SpecDispatch == InitDispatch /\ [][NextDispatch]_vars

----------------------------------------------------------------------------
(* process_data_for_decision (bcipy/helpers/decision.py).  Times are whole  *)
(* seconds, 0 stands for None; a record of the daq is named by the query    *)
(* that returned it and its index.                                          *)

\* the sequence timings considered: stimuli 1..n at strictly increasing times
Timings ==
    UNION {{t \in [1..n -> 0..MaxTime] : \A i \in 1..(n - 1) : t[i] < t[i + 1]}
               : n \in 1..MaxStim}

\* sequence_timing: (text, timing) per stimulus; the text is the stimulus number
SequenceTiming(t) == [i \in 1..Len(t) |-> << i, t[i] >>]

\* the record.data of the i-th record returned by the query number qn: a
\* sample column and the marker column, which is a str
RecordData(qn, i) == << [str |-> FALSE, val |-> 10 * qn + i], [str |-> TRUE, val |-> 0] >>

\* what daq.get_data returns when it returns n records
DaqData(qn, n) == [i \in 1..n |-> RecordData(qn, i)]

\* _float_val: 1.0 for a str, float(col) otherwise
FloatVal(col) == IF col.str THEN 1 ELSE col.val

\* np.array([... for record in raw_data]).transpose(): one row per column
Transposed(rows) ==
    IF rows = << >> THEN << >>
    ELSE [c \in 1..Len(rows[1]) |-> [i \in 1..Len(rows) |-> FloatVal(rows[i][c])]]

\* static_offset or parameters['static_trigger_offset']
StaticOffset(call) == IF call.static_offset # 0 THEN call.static_offset ELSE call.static_param

\* buf_length if given, else parameters['len_data_sequence_buffer']
BufferLength(call) == IF call.buf_length # 0 THEN call.buf_length ELSE call.buffer_param

FirstStimTime(call) == call.sequence_timing[1][2]

LastStimTime(call) == call.sequence_timing[Len(call.sequence_timing)][2]

\* offset added to the stimulus times: with a daq offset, relative to the
\* first stimulus of the session
Offset(call) ==
    IF call.daq_offset # 0
    THEN call.daq_offset - call.first_session_stim_time + StaticOffset(call)
    ELSE StaticOffset(call)

Time1(call) == (FirstStimTime(call) + Offset(call)) * call.fs

Time2(call) == (LastStimTime(call) + Offset(call) + BufferLength(call)) * call.fs

\* triggers = [(text, timing - first_stim_time) for text, timing in sequence_timing]
Triggers(call) ==
    [i \in 1..Len(call.sequence_timing) |->
        << call.sequence_timing[i][1], call.sequence_timing[i][2] - FirstStimTime(call) >>]

\* target_info = ['nontarget'] * len(triggers)
TargetInfo(call) == [i \in 1..Len(Triggers(call)) |-> "nontarget"]

\* data_limit = (last_stim_time - first_stim_time + buffer_length) * fs
DataLimit(call) == (LastStimTime(call) - FirstStimTime(call) + BufferLength(call)) * call.fs

\* the numbers of records the daq may answer with: none, one too few, just
\* enough, one more
AnswerLengths(call) == {n \in {0, DataLimit(call) - 1, DataLimit(call), DataLimit(call) + 1} : n >= 0}

\* a call process_data_for_decision(sequence_timing, daq, window, parameters,
\* first_session_stim_time, static_offset, buf_length)
InitDecision ==
    /\ Constructed
    /\ ss = StartIdle
    /\ pace = PaceIdle
    /\ dp = DispatchIdle
    /\ \E t \in Timings, f \in 1..2, so \in 0..1, bl \in 0..1, off \in 0..1 :
          pd = [pc |-> "called",
                call |-> [sequence_timing |-> SequenceTiming(t), fs |-> f,
                          static_offset |-> so, static_param |-> 1,
                          buf_length |-> bl, buffer_param |-> 2,
                          daq_offset |-> off, first_session_stim_time |-> 0],
                queries |-> << >>, lens |-> << >>, raw |-> << >>,
                exc |-> "none", ret |-> << >>]

\* a variant of SecondNeeded that asks again only when nothing was returned
SecondNeededWhenEmpty(n, limit) == n = 0

\* if len(raw_data) < data_limit
SecondNeeded(n, limit) == n < limit

\* raw_data = daq.get_data(start=time1, end=time2, win=window)
FirstQuery ==
    /\ pd.pc = "called"
    /\ \E n \in AnswerLengths(pd.call) :
          pd' = [pd EXCEPT !.queries = << [start |-> Time1(pd.call), end |-> Time2(pd.call)] >>,
                           !.lens = << n >>,
                           !.raw = DaqData(1, n),
                           !.pc = IF SecondNeeded(n, DataLimit(pd.call))
                                  THEN "again" ELSE "convert"]
    /\ UNCHANGED << mainvars, aw, ss, pace, dp >>

\* raw_data = daq.get_data(start=time1, win=window)
SecondQuery ==
    /\ pd.pc = "again"
    /\ \E n \in AnswerLengths(pd.call) :
          pd' = [pd EXCEPT !.queries = Append(@, [start |-> Time1(pd.call), end |-> 0]),
                           !.lens = Append(@, n),
                           !.raw = DaqData(2, n),
                           !.pc = IF n < DataLimit(pd.call) THEN "short" ELSE "convert"]
    /\ UNCHANGED << mainvars, aw, ss, pace, dp >>

\* daq.get_data raises: except Exception as e: log, raise e
QueryRaises ==
    /\ pd.pc \in {"called", "again"}
    /\ pd' = [pd EXCEPT !.pc = "raised", !.exc = "Exception"]
    /\ UNCHANGED << mainvars, aw, ss, pace, dp >>

\* raise InsufficientDataException(message), logged and raised again by the
\* except clause
RaiseInsufficient ==
    /\ pd.pc = "short"
    /\ pd' = [pd EXCEPT !.pc = "raised", !.exc = "InsufficientDataException"]
    /\ UNCHANGED << mainvars, aw, ss, pace, dp >>

\* the conversion of raw_data and return raw_data, triggers, target_info
DecisionReturn ==
    /\ pd.pc = "convert"
    /\ pd' = [pd EXCEPT !.pc = "returned",
                        !.ret = << Transposed(pd.raw), Triggers(pd.call), TargetInfo(pd.call) >>]
    /\ UNCHANGED << mainvars, aw, ss, pace, dp >>

NextDecision ==
    \/ FirstQuery
    \/ SecondQuery
    \/ QueryRaises
    \/ RaiseInsufficient
    \/ DecisionReturn

SpecDecision == InitDecision /\ [][NextDecision]_vars

----------------------------------------------------------------------------
(* start_socket_server *)

\* the ports a bind may be tried on
Ports == 1..(NumFirstPorts + DefaultRetries + 1)

\* the IOError raised by the bind attempt on port p, named by its port
BindError(p) == p

\* a variant of Reraise that raises a new exception in place of the caught one
RaiseNew(error) == 0

\* raise error: the caught exception is raised again
Reraise(error) == error

\* a call start_socket_server(protocol, host, port, retries) with some ports
\* busy; the variables of the server keep the values of a constructed server
InitStart ==
    /\ Constructed
    /\ pace = PaceIdle
    /\ dp = DispatchIdle
    /\ pd = DecisionIdle
    /\ \E b \in SUBSET Ports, p \in 1..NumFirstPorts, r \in 0..DefaultRetries :
          ss = [pc |-> "try", busy |-> b, first |-> p, budget |-> r, port |-> p,
                retries |-> r, tried |-> << >>, raised |-> 0]

\* DataServer(..., port=port) binds the port: the constructor returns
BindOk ==
    /\ ss.pc = "try"
    /\ ss.port \notin ss.busy
    /\ ss' = [ss EXCEPT !.pc = "await", !.tried = Append(@, ss.port)]
    /\ UNCHANGED << mainvars, aw, pace, dp, pd >>

\* a variant of BindBusy that retries once more than the budget allows
BindBusyOnceMore ==
    /\ ss.pc = "try"
    /\ ss.port \in ss.busy
    /\ ss.retries >= 0
    /\ ss' = [ss EXCEPT !.tried = Append(@, ss.port), !.port = @ + 1, !.retries = @ - 1]
    /\ UNCHANGED << mainvars, aw, pace, dp, pd >>

\* the bind raises IOError and retries > 0: port = port + 1 and the recursive
\* call start_socket_server(protocol, host, port, retries - 1)
BindBusy ==
    /\ ss.pc = "try"
    /\ ss.port \in ss.busy
    /\ ss.retries > 0
    /\ ss' = [ss EXCEPT !.tried = Append(@, ss.port), !.port = @ + 1, !.retries = @ - 1]
    /\ UNCHANGED << mainvars, aw, pace, dp, pd >>

\* the bind raises IOError and retries = 0: raise error, which leaves every
\* enclosing call
BindExhausted ==
    /\ ss.pc = "try"
    /\ ss.port \in ss.busy
    /\ ss.retries <= 0
    /\ ss' = [ss EXCEPT !.pc = "bindfail", !.tried = Append(@, ss.port),
                        !.raised = Reraise(BindError(ss.port))]
    /\ UNCHANGED << mainvars, aw, pace, dp, pd >>

\* await_start(dataserver) returns: return dataserver, port
StartReturn ==
    /\ ss.pc = "await"
    /\ ss' = [ss EXCEPT !.pc = "returned"]
    /\ UNCHANGED << mainvars, aw, pace, dp, pd >>

\* await_start(dataserver) raises its start failure
StartTimeout ==
    /\ ss.pc = "await"
    /\ ss' = [ss EXCEPT !.pc = "startfail"]
    /\ UNCHANGED << mainvars, aw, pace, dp, pd >>

NextStart ==
    \/ BindOk
    \/ BindBusy
    \/ BindExhausted
    \/ StartReturn
    \/ StartTimeout

SpecStart == InitStart /\ [][NextStart]_vars

----------------------------------------------------------------------------

Next ==
    \/ Start
    \/ StopRequest
    \/ StopReturn
    \/ \E c \in Conns : Connect(c)
    \/ \E c \in Conns : Disconnect(c)
    \/ Listen
    \/ SetStarted
    \/ LoopCheck
    \/ SelectReadable
    \/ SelectTimeout
    \/ Accept
    \/ Shutdown
    \/ ShutdownRaise
    \/ CloseRaise
    \/ Release
    \/ ReleaseFinalized
    \/ HandshakeWrite
    \/ HandshakeRaise
    \/ MakeGenerator
    \/ GeneratorRaise
    \/ ProducerEnter
    \/ StreamCheck
    \/ QueueGet
    \/ Stall
    \/ WriteFrame
    \/ WriteFail
    \/ ProducerExit
    \/ ProducerJoin
    \/ CloseClient
    \/ \E c \in Conns : ProducerPut(c)
    \/ \E c \in Conns : ProducerExhausted(c)
    \/ \E c \in Conns : ProducerEncodeFail(c)
    \/ \E c \in Conns : ProducerHalt(c)

Spec == Init /\ [][Next]_vars

\* a step of the server thread
ServerStep ==
    \/ Listen \/ SetStarted \/ LoopCheck \/ SelectReadable \/ SelectTimeout \/ Accept
    \/ Shutdown \/ ShutdownRaise \/ CloseRaise \/ Release \/ ReleaseFinalized
    \/ HandshakeWrite \/ HandshakeRaise \/ MakeGenerator \/ GeneratorRaise
    \/ ProducerEnter \/ StreamCheck \/ QueueGet \/ Stall \/ WriteFrame \/ WriteFail
    \/ ProducerExit \/ ProducerJoin \/ CloseClient

\* a step of a producer thread
ProducerStep ==
    \E c \in Conns :
        ProducerPut(c) \/ ProducerExhausted(c) \/ ProducerEncodeFail(c) \/ ProducerHalt(c)

\* a step of the caller inside await_start (StopReturn: the stop() it calls returns)
AwaitStep ==
    AwaitCheck \/ AwaitSleep \/ AwaitStop \/ StopReturn \/ AwaitRaise

\* the only caller is the one inside await_start; one client is enough to have
\* the server thread inside a session when the stop of await_start arrives
NextAwait ==
    \/ AwaitStart
    \/ AwaitCheck
    \/ AwaitSleep
    \/ AwaitStop
    \/ StopReturn
    \/ AwaitRaise
    \/ ServerStep
    \/ ProducerStep
    \/ Connect(1)
    \/ Disconnect(1)

\* the server with a caller that starts it through await_start; every thread
\* that can take a step eventually takes one
SpecAwait ==
    /\ Init
    /\ [][NextAwait]_vars
    /\ WF_vars(ServerStep)
    /\ WF_vars(ProducerStep)
    /\ WF_vars(AwaitStep)

TypeOK ==
    /\ sock \in {"bound", "listening", "closed"}
    /\ closes \in 0..2
    /\ started \in BOOLEAN
    /\ running \in BOOLEAN
    /\ spc \in {"new", "listen", "setstarted", "loop", "select", "accept", "shutdown",
                "release", "done", "crashed", "hs", "mkgen", "enter", "sloop", "get",
                "write", "pexit", "join", "close_client"}
    /\ callerpc \in {"idle", "joining", "returned"}
    /\ cur \in Conns \cup {0}
    /\ hsi \in 1..(NumInit + 1)
    /\ gen \in 0..GenLen
    /\ Len(queue) <= GenLen
    /\ \A c \in Conns :
        /\ conn[c] \in {"idle", "pending", "accepted", "closed"}
        /\ sess[c] \in {"none", "handshaking", "streaming", "disconnected"}
        /\ how[c] \in {"none", "stall", "writefail", "stop"}
        /\ ppc[c] \in {"none", "running", "dead"}
        /\ pend[c] \in {"none", "exhausted", "encfail", "halted"}

----------------------------------------------------------------------------
(* Vocabulary of the properties *)

\* positions of the server thread inside _handle_client
SessionPcs == {"hs", "mkgen", "enter", "sloop", "get", "write", "pexit", "join",
               "close_client"}

\* positions of the server thread inside the with Producer(...) block
WithPcs == {"sloop", "get", "write", "pexit", "join"}

\* positions of the server thread in the accept loop, outside a session
PollPcs == {"loop", "select", "accept"}

\* the session of connection c is Handshaking or Streaming
Active(c) == sess[c] \in {"handshaking", "streaming"}

\* connection c was accepted and the server thread is no longer in its handler
Ended(c) == sess[c] # "none" /\ ~(cur = c /\ spc \in SessionPcs)

----------------------------------------------------------------------------
(* Properties *)

\* C1: in every session the data frames written to the client are a prefix of
\* the frames the session's producer enqueued: same order, none duplicated,
\* none skipped, none reordered.
C1_FramesInProductionOrder ==
    \A c \in Conns : IsPrefix(Frames(sent[c]), enq[c])

\* a session in which two frames were produced and written to the client
C1_Witness ==
    \E c \in Conns : Len(Frames(sent[c])) >= 2

\* C2: the handshake messages are written in the protocol's order, each once,
\* all of them before the producer is started and before any data frame, and
\* none after a data frame.
C2_HandshakeBeforeData ==
    \A c \in Conns :
        /\ IsPrefix(Inits(sent[c]), init_messages)
        /\ \A i \in 1..Len(sent[c]) :
              sent[c][i].kind = "init" <=> i <= Len(Inits(sent[c]))
        /\ (ppc[c] # "none" \/ sess[c] \in {"streaming", "disconnected"}
              \/ Frames(sent[c]) # << >> \/ enq[c] # << >>)
              => Inits(sent[c]) = init_messages

\* a session whose producer runs and whose client got a frame after the handshake
C2_Witness ==
    \E c \in Conns : /\ ppc[c] = "running"
                     /\ Frames(sent[c]) # << >>
                     /\ Len(Inits(sent[c])) = NumInit

\* C3: at most one session is Handshaking or Streaming, and while one is, no
\* other connection has been accepted.
C3_OneSessionAtATime ==
    /\ Cardinality({c \in Conns : Active(c)}) <= 1
    /\ \A c, d \in Conns :
          (c # d /\ Active(c)) => (conn[d] # "accepted" /\ ppc[d] # "running")

\* a second connection waits in the backlog while a session is streaming
C3_Witness ==
    \E c, d \in Conns : /\ c # d
                        /\ sess[c] = "streaming"
                        /\ spc \in WithPcs
                        /\ conn[d] = "pending"

\* C4: every session starts from a fresh generator and a fresh queue: the k-th
\* frame written in any session is the encoded k-th sample of the generator's
\* initial state, so it is the same in every session, and the producer of a
\* session starts on an empty queue.
C4_FreshGeneratorPerSession ==
    /\ \A c \in Conns : \A k \in 1..Len(Frames(sent[c])) :
          Frames(sent[c])[k] = Encode(GenSample(k - 1))
    /\ \A a, b \in Conns : \A k \in 1..Len(Frames(sent[a])) :
          k <= Len(Frames(sent[b])) => Frames(sent[a])[k] = Frames(sent[b])[k]
    /\ spc = "enter" => (queue = << >> /\ gen = 0)

\* two sessions that each wrote a frame, the earlier one having left frames unsent
C4_Witness ==
    \E a, b \in Conns : /\ a # b
                        /\ sess[a] = "disconnected"
                        /\ Frames(sent[a]) # << >>
                        /\ Len(enq[a]) > Len(Frames(sent[a]))
                        /\ Frames(sent[b]) # << >>

\* C5: a stream stall ends the session only: the client socket is closed, and
\* as long as no stop is requested the server thread goes on through the
\* teardown to the accept loop with the listening socket open, the producer
\* terminated.
C5_StallEndsOnlyTheSession ==
    \A c \in Conns : how[c] = "stall" =>
        /\ conn[c] = "closed"
        /\ cur = c => spc # "crashed"
        /\ (cur = c /\ running) =>
              (sock = "listening" /\ spc \in {"pexit", "join", "close_client"} \cup PollPcs)
        /\ (cur = c /\ spc \in PollPcs) => (sess[c] = "disconnected" /\ ppc[c] = "dead")

\* after a session ended by a stall, a later connection is accepted and served
C5_Witness ==
    \E c, d \in Conns : /\ c # d
                        /\ how[c] = "stall"
                        /\ sess[d] = "streaming"
                        /\ Frames(sent[d]) # << >>
                        /\ sock = "listening"

\* C6: a failed write of a data frame ends the session only: the failure does
\* not leave the handler, and as long as no stop is requested the server
\* thread goes on through the teardown to the accept loop with the listening
\* socket open, the client socket closed and the producer terminated.
C6_WriteFailureEndsOnlyTheSession ==
    \A c \in Conns : how[c] = "writefail" =>
        /\ cur = c => spc # "crashed"
        /\ (cur = c /\ running) =>
              (sock = "listening" /\ spc \in {"pexit", "join", "close_client"} \cup PollPcs)
        /\ (cur = c /\ spc \in PollPcs) =>
              (conn[c] = "closed" /\ sess[c] = "disconnected" /\ ppc[c] = "dead")

\* after a session ended by a write failure, the next client is accepted
C6_Witness ==
    \E c, d \in Conns : /\ c # d
                        /\ how[c] = "writefail"
                        /\ ~peer[c]
                        /\ Active(d)
                        /\ conn[d] = "accepted"
                        /\ sock = "listening"

\* C7: every session that has ended, by whatever path, has its client socket
\* closed and its producer torn down, and the server thread is in the accept
\* loop (or serving a later session) unless a stop was requested.
C7_EverySessionEndCleansUp ==
    \A c \in Conns : Ended(c) =>
        /\ conn[c] = "closed"
        /\ ppc[c] # "running"
        /\ running => spc \in PollPcs \cup SessionPcs

\* C8: a producer's background thread is alive only while the server thread is
\* inside that session's with block: at most one is alive, and none while the
\* server polls for connections, closes the client, shuts down or has ended.
C8_ProducerLivesInsideItsScope ==
    /\ Cardinality({c \in Conns : ppc[c] = "running"}) <= 1
    /\ \A c \in Conns : ppc[c] = "running" => (cur = c /\ spc \in WithPcs)

\* the with block was left on a stall and the producer thread has terminated
C8_Witness ==
    /\ spc = "close_client"
    /\ how[cur] = "stall"
    /\ ppc[cur] = "dead"
    /\ enq[cur] # << >>

\* C9: the listening socket bound by the constructor is closed exactly once on
\* every path by which the server's life ends: it is closed, once, when the
\* server thread has terminated, and it is never closed twice.
C9_ListeningSocketClosedOnce ==
    /\ closes <= 1
    /\ ThreadTerminated => (sock = "closed" /\ closes = 1)

\* C10: when stop() has returned to its caller, the accept loop has exited and
\* the listening socket has been closed.
C10_StopIsSynchronous ==
    callerpc = "returned" => (spc \notin PollPcs \cup SessionPcs /\ sock = "closed")

\* C11: when stop was requested while a session was in its streaming loop, the
\* server ends with the streaming loop left, every producer thread terminated,
\* the accept loop exited and the listening socket closed, and the accept loop
\* polls for and accepts no further client on the way.
C11_StopDuringStreamingShutsDown ==
    stopmid =>
        /\ spc \notin {"select", "accept", "hs", "mkgen", "enter", "crashed"}
        /\ spc = "done" =>
              (sock = "closed" /\ \A c \in Conns : ppc[c] # "running")

\* C12: when the accept loop has exited and run has returned, the listening
\* descriptor has been released, whatever the socket operations did.
C12_ShutdownReleasesDescriptor ==
    spc = "done" => sock = "closed"

\* C13: an encoding failure ends the producer thread and its session only: no
\* further frame is produced, the failure does not leave the handler, and as
\* long as no stop is requested the server thread goes on through the teardown
\* to the accept loop with the listening socket open, the client socket closed
\* and the session over.
C13_EncodingFailureEndsOnlyTheSession ==
    \A c \in Conns : pend[c] = "encfail" =>
        /\ ppc[c] = "dead"
        /\ Len(enq[c]) < GenLen
        /\ cur = c => spc # "crashed"
        /\ (cur = c /\ running) =>
              (sock = "listening" /\ spc \in WithPcs \cup {"close_client"} \cup PollPcs)
        /\ (cur = c /\ spc \in PollPcs) =>
              (conn[c] = "closed" /\ sess[c] = "disconnected")
        /\ sess[c] = "disconnected" => how[c] \in {"stall", "writefail", "stop"}

\* after a session whose producer died on an encoding failure, stalled and was
\* torn down, a later client is accepted
C13_Witness ==
    \E c, d \in Conns : /\ c # d
                        /\ pend[c] = "encfail"
                        /\ how[c] = "stall"
                        /\ conn[c] = "closed"
                        /\ Active(d)
                        /\ conn[d] = "accepted"
                        /\ sock = "listening"

\* a step from the accept loop's condition with stop requested leads to the shutdown
StopSeenAtLoop ==
    (spc = "loop" /\ ~running) => spc' \in {"loop", "shutdown"}

\* a step after the accept loop was left accepts nothing and writes nothing
NothingServedAfterLoop ==
    spc \in {"shutdown", "release", "done"} =>
        (/\ spc' \in {"shutdown", "release", "done"}
         /\ sent' = sent
         /\ sess' = sess
         /\ \A c \in Conns : conn'[c] = "accepted" => conn[c] = "accepted")

\* C17: once stop is requested the accept loop starts no new poll iteration:
\* from its loop condition it goes to the shutdown, and from there on nothing
\* is accepted and nothing is written to any client.
C17_NoPollAfterStop ==
    [][StopSeenAtLoop /\ NothingServedAfterLoop]_vars

\* the accept loop was left on a stop request, after a session, while another
\* connection was waiting to be accepted
C17_Witness ==
    /\ ~running
    /\ spc = "shutdown"
    /\ backlog # << >>
    /\ \E c \in Conns : sess[c] = "disconnected"

\* one step of the lifecycle of the socket and of every session
LifecycleStep ==
    /\ sock' # sock =>
          << sock, sock' >> \in {<< "bound", "listening" >>, << "listening", "closed" >>,
                                 << "bound", "closed" >>}
    /\ \A c \in Conns :
          /\ sess'[c] # sess[c] =>
                << sess[c], sess'[c] >> \in {<< "none", "handshaking" >>,
                                             << "handshaking", "streaming" >>,
                                             << "streaming", "disconnected" >>}
          /\ (sess'[c] = "handshaking" /\ sess[c] = "none") =>
                (sock = "listening" /\ started /\ \A d \in Conns : ~Active(d))
          /\ (sess'[c] = "streaming" /\ sess[c] = "handshaking") =>
                Inits(sent[c]) = init_messages
    /\ sock = "closed" => (sent' = sent /\ sess' = sess)

\* C18: the lifecycle only moves forward: started is set only on a socket that
\* was put into listen; the socket goes bound, listening, closed; a session goes
\* none, handshaking, streaming, disconnected; a client is accepted only on the
\* listening socket with no session active; streaming is entered only after the
\* complete handshake; once the socket is closed nothing is accepted or written.
C18_LifecycleMovesForward ==
    [](started => sock # "bound") /\ [][LifecycleStep]_vars

\* the server is stopped after a complete session, with a connection that was
\* queued too late to be served
C18_Witness ==
    /\ sock = "closed"
    /\ started
    /\ \E c, d \in Conns : /\ sess[c] = "disconnected"
                           /\ Frames(sent[c]) # << >>
                           /\ conn[d] = "pending"

\* C19: the number of enqueued and not yet written frames stays within a fixed
\* capacity that does not grow with the production: it stays below the number
\* of frames the session's generator yields.
C19_QueueWithinCapacity ==
    Len(queue) < GenLen

\* what holds of a session whose generator is exhausted
ExhaustedSessionOk(c) ==
    /\ ppc[c] = "dead"
    /\ Len(enq[c]) = GenLen
    /\ cur = c => spc # "crashed"
    /\ (cur = c /\ spc = "get") => Frames(sent[c]) \o queue = enq[c]
    /\ (cur = c /\ running) =>
          (sock = "listening" /\ spc \in WithPcs \cup {"close_client"} \cup PollPcs)
    /\ (cur = c /\ spc \in PollPcs) =>
          (conn[c] = "closed" /\ sess[c] = "disconnected")

\* a stall of a session whose generator is exhausted comes after every
\* enqueued frame was written, and leads to the teardown
StallAfterExhaustion ==
    (cur # 0 /\ spc = "get" /\ spc' # "get" /\ queue = << >> /\ pend[cur] = "exhausted") =>
        (/\ Frames(sent[cur]) = enq[cur]
         /\ how'[cur] = "stall"
         /\ spc' = "pexit")

\* C20: an exhausted generator ends the producer thread without an error; the
\* frames it enqueued are written in order, and when the queue has run empty
\* the session ends by the stall with every frame written; the server is not
\* failed: without a stop request it goes on to the accept loop with the
\* listening socket open.
C20_ExhaustionEndsByStall ==
    /\ [](\A c \in Conns : pend[c] = "exhausted" => ExhaustedSessionOk(c))
    /\ [][StallAfterExhaustion]_vars

\* a finite generator ran out, all its frames were written, the session ended
\* by the stall and the server is back in the accept loop
C20_Witness ==
    \E c \in Conns : /\ pend[c] = "exhausted"
                     /\ how[c] = "stall"
                     /\ Len(Frames(sent[c])) = GenLen
                     /\ cur = c
                     /\ spc \in PollPcs
                     /\ running
                     /\ sock = "listening"

\* C14: start_socket_server tries the ports P, P+1, ... in increasing order,
\* one bind each and none above P+r; when a bind succeeds it is on the lowest
\* free port of P..P+r, which is the port it returns; it raises the bind
\* failure exactly when all of P..P+r are busy.
C14_LowestFreePortWithinBudget ==
    LET range == ss.first..(ss.first + ss.budget)
        free == {p \in range : p \notin ss.busy}
    IN  /\ Len(ss.tried) <= ss.budget + 1
        /\ \A i \in 1..Len(ss.tried) : ss.tried[i] = ss.first + i - 1
        /\ ss.pc \in {"await", "returned", "startfail"} =>
              (/\ ss.port \in free
               /\ \A p \in free : ss.port <= p
               /\ ss.tried[Len(ss.tried)] = ss.port)
        /\ ss.pc = "bindfail" => (free = {} /\ Len(ss.tried) = ss.budget + 1)
        /\ (ss.pc # "try" /\ free = {}) => ss.pc = "bindfail"

\* the requested port was busy and the server was returned on a later port
C14_Witness ==
    /\ ss.pc = "returned"
    /\ ss.port = ss.first + 2
    /\ ss.budget = 2

\* C15 as claimed: the failure raised when the budget is exhausted is the one
\* of the first bind attempt, on the requested port.
C15_RaisesFirstFailure ==
    ss.pc = "bindfail" => ss.raised = BindError(ss.first)

\* C15 as amended: the failure raised when the budget is exhausted is the one
\* caught last, that of the bind attempt on port P+r, raised again as caught.
C15_RaisesLastFailure ==
    ss.pc = "bindfail" => ss.raised = BindError(ss.first + ss.budget)

\* the budget of two retries is exhausted
C15_Witness ==
    /\ ss.pc = "bindfail"
    /\ ss.budget = 2
    /\ Len(ss.tried) = 3

\* what holds of every state of await_start: it returns only on a started,
\* listening server; it stops the server only when the wait has reached
\* max_wait; when it has raised, the server is stopped and its thread has ended
AwaitOk ==
    /\ aw.wait <= MaxWaitTicks
    /\ aw.pc = "returned" => (started /\ sock # "bound" /\ aw.wait < MaxWaitTicks)
    /\ aw.pc \in {"stop", "stopping", "failed"} => aw.wait >= MaxWaitTicks
    /\ aw.pc \in {"stopping", "failed"} => ~running
    /\ aw.pc = "failed" => (ThreadTerminated /\ callerpc = "returned")

\* C16: await_start always terminates: it returns only after the server thread
\* listens and has set started, otherwise it stops the server once the wait
\* has reached max_wait and raises, with no server thread left running.
C16_AwaitStartTerminates ==
    /\ []AwaitOk
    /\ (aw.pc = "check") ~> (aw.pc \in {"returned", "failed"})

\* await_start raised its start failure: the server thread was too slow
C16_Witness ==
    /\ aw.pc = "failed"
    /\ started
    /\ sock = "closed"

\* C24: after the running flag has been cleared, at most one further data
\* frame is written to any client in total: the one whose queue take was
\* under way when the flag was cleared; a session that enters its streaming
\* loop after the flag was cleared writes none.
C24_AtMostOneFrameAfterStop ==
    /\ late <= 1
    /\ running => late = 0
    /\ (late = 1) => stopmid
    /\ (late = 1) => spc \notin {"get", "write"}

\* the stop arrived during a queue take, and the frame taken was still written
C24_Witness ==
    /\ late = 1
    /\ spc = "done"
    /\ \E c \in Conns : how[c] = "stop" /\ Frames(sent[c]) # << >>

\* C21: with period p = 1/sampleRate and anchor t0, the n-th frame
\* (n = 0, 1, ...) is never enqueued before t0 + n*p, and it is enqueued at
\* most one iteration's delay after it, whatever the delays of the frames
\* before it: the lateness does not grow with n.
C21_PacingIsAnchored ==
    pace.pc # "none" =>
        LET p == pace.fs.den \div pace.fs.num
        IN  \A i \in 1..Len(pace.times) :
                /\ pace.times[i] >= pace.t0 + (i - 1) * p
                /\ pace.times[i] - (pace.t0 + (i - 1) * p) <= p

\* every frame but the last was enqueued a full period late, the last on time
C21_Witness ==
    /\ pace.pc # "none"
    /\ pace.period = MaxPeriod
    /\ Len(pace.times) = MaxFrames
    /\ \A i \in 1..(MaxFrames - 1) : pace.times[i] = TargetTime(i - 1) + pace.period
    /\ pace.times[MaxFrames] = TargetTime(MaxFrames - 1)

\* C22 as claimed: entering a processor whose device info was never set fails
\* with AssertionError and opens no file: a Processor, NullProcessor or
\* FileWriter entered on its own, and a DispatchProcessor, with or without
\* processors in its list, whose set_device_info was never called.
C22_EnterNeedsDeviceInfo ==
    dp.pc = "ready" =>
        /\ (dp.last.op = "enter_processor" /\ dp.info[dp.direct] = 0) =>
              (dp.last.res = "AssertionError" /\ dp.cstate[dp.direct] = "new")
        /\ (dp.last.op = "enter" /\ dp.dinfo = 0) =>
              (/\ dp.last.res = "AssertionError"
               /\ \A q \in Procs : dp.cstate[q] # "entered")

\* the list l without the first occurrence of q, written out index by index
WithoutFirst(l, q, i) ==
    /\ i \in 1..Len(l)
    /\ l[i] = q
    /\ \A j \in 1..(i - 1) : l[j] # q

\* the list changes only by an add at its end or by taking out the first
\* occurrence of a processor, the others keeping their order
ListStep ==
    (dp.pc = "ready" /\ dp'.procs # dp.procs) =>
        \E q \in Procs :
            \/ dp'.procs = dp.procs \o << q >>
            \/ \E i \in 1..Len(dp.procs) :
                  /\ WithoutFirst(dp.procs, q, i)
                  /\ Len(dp'.procs) = Len(dp.procs) - 1
                  /\ \A k \in 1..Len(dp'.procs) :
                        dp'.procs[k] = IF k < i THEN dp.procs[k] ELSE dp.procs[k + 1]

\* C23 as claimed: process forwards the record and timestamp exactly once to
\* every processor in the collection, and to no other.
C23_EachProcessorOnce ==
    (dp.pc = "ready" /\ dp.last.op = "process") =>
        \A q \in Procs :
            Cardinality({i \in 1..Len(dp.calls) : dp.calls[i][1] = q})
                = IF FirstIndex(dp.procs, q) # 0 THEN 1 ELSE 0

\* what a call of process has done: one call per entry of the list, in list
\* order, with the record and timestamp it was given, up to and including the
\* first processor whose process raises
ForwardedPerEntry ==
    (dp.pc = "ready" /\ dp.last.op = "process") =>
        /\ Len(dp.calls) <= Len(dp.procs)
        /\ \A i \in 1..Len(dp.calls) :
              dp.calls[i] = << dp.procs[i], dp.last.arg[1], dp.last.arg[2] >>
        /\ \A i \in 1..(Len(dp.calls) - 1) : ChildProcess(dp.procs[i]) = "ok"
        /\ dp.last.res = "ok" => Len(dp.calls) = Len(dp.procs)
        /\ dp.last.res # "ok" =>
              (dp.calls # << >> /\ ChildProcess(dp.procs[Len(dp.calls)]) = dp.last.res)

\* C23 as amended: process forwards the record and timestamp once for every
\* entry of the list, in list order, until a processor raises; every add
\* makes an entry at the end and remove takes out the earliest entry of the
\* processor, so a processor added twice receives the record twice.
C23_ForwardsOncePerEntry ==
    /\ []ForwardedPerEntry
    /\ [][ListStep]_vars

\* a processor added twice has received the record twice
C23_Witness ==
    /\ dp.pc = "ready"
    /\ dp.last.op = "process"
    /\ dp.last.res = "ok"
    /\ Len(dp.procs) = 2
    /\ dp.procs[1] = dp.procs[2]
    /\ Len(dp.calls) = 2

\* C25: whenever the dispatcher's own device info is set, every processor in
\* its list holds that same, most recently set, device info.
C25_ChildrenHoldDispatcherInfo ==
    (dp.pc = "ready" /\ dp.dinfo # 0) =>
        \A i \in 1..Len(dp.procs) : dp.info[dp.procs[i]] = dp.dinfo

\* the device info was set twice: a processor taken out in between holds the
\* earlier one, the processor in the list the later one
C25_Witness ==
    /\ dp.pc = "ready"
    /\ dp.dinfo # 0
    /\ dp.procs # << >>
    /\ \E q \in Procs :
          /\ FirstIndex(dp.procs, q) = 0
          /\ dp.info[q] \notin {0, dp.dinfo}

\* C26 as claimed: when __enter__ of the dispatcher has raised, no processor
\* is left entered (no FileWriter file is open); after a successful entry,
\* __exit__ leaves every processor of the list exited.
C26_EnterIsAllOrNothing ==
    (dp.pc = "ready" /\ dp.direct = 0) =>
        /\ dp.ctx = "failed" => \A q \in Procs : dp.cstate[q] # "entered"
        /\ dp.last.op = "exit" =>
              \A i \in 1..Len(dp.procs) : dp.cstate[dp.procs[i]] = "exited"

\* C27: process_data_for_decision queries the daq at most twice, first with
\* start and end, and only when that returns fewer records than data_limit a
\* second time with the same start and no end; it raises
\* InsufficientDataException exactly when both results are shorter than
\* data_limit; otherwise it returns the converted data of the last query it
\* made, with one trigger and one 'nontarget' label per stimulus, the trigger
\* times counted from the first stimulus.
C27_AtMostTwoQueries ==
    pd.pc # "none" =>
        LET call == pd.call
            st == call.sequence_timing
            limit == (st[Len(st)][2] - st[1][2]
                        + (IF call.buf_length # 0 THEN call.buf_length ELSE call.buffer_param))
                     * call.fs
            nq == Len(pd.queries)
        IN  /\ nq <= 2 /\ Len(pd.lens) = nq
            /\ nq >= 1 => (pd.queries[1].end # 0
                           /\ pd.queries[1].end - pd.queries[1].start = limit)
            /\ nq = 2 => (/\ pd.lens[1] < limit
                          /\ pd.queries[2].end = 0
                          /\ pd.queries[2].start = pd.queries[1].start)
            /\ (nq = 1 /\ pd.lens[1] < limit) => pd.pc \in {"again", "raised"}
            /\ pd.pc \in {"convert", "returned"} => pd.lens[nq] >= limit
            /\ pd.exc = "InsufficientDataException" <=>
                  (pd.pc = "raised" /\ nq = 2 /\ pd.lens[1] < limit /\ pd.lens[2] < limit)
            /\ (pd.pc = "raised" /\ pd.exc = "Exception") => nq < 2
            /\ pd.pc = "returned" =>
                  (/\ pd.exc = "none"
                   /\ Len(pd.ret[1]) = 2
                   /\ \A c \in 1..2 : Len(pd.ret[1][c]) = pd.lens[nq]
                   /\ \A i \in 1..pd.lens[nq] :
                         pd.ret[1][1][i] = 10 * nq + i /\ pd.ret[1][2][i] = 1
                   /\ Len(pd.ret[2]) = Len(st) /\ Len(pd.ret[3]) = Len(st)
                   /\ \A i \in 1..Len(st) :
                         /\ pd.ret[2][i] = << st[i][1], st[i][2] - st[1][2] >>
                         /\ pd.ret[3][i] = "nontarget")

\* the first query was short, the second was not, and its data was returned
C27_Witness ==
    /\ pd.pc = "returned"
    /\ Len(pd.queries) = 2
    /\ Len(pd.call.sequence_timing) = MaxStim
    /\ pd.ret[1][1][1] = 21

====
